---------------------------- MODULE Spec2Model ----------------------------
(***************************************************************************)
(* State-machine model of the runnable sample code of the fixture corpus:  *)
(*   services/database.py  DatabaseConnection                              *)
(*   services/auth.py      AuthService                                     *)
(*   config/settings.py    Settings                                        *)
(*   comprehensive.py      Person (dataclass), async_counter               *)
(* Each class is modelled by one pure operator per method, taking the      *)
(* object's fields and the arguments and giving the new fields, the        *)
(* exception raised (NoExc when none) and the value returned; one action   *)
(* per method applies the operator to arguments drawn from small sets and  *)
(* records the call in a "last call" variable.                             *)
(***************************************************************************)
EXTENDS Integers, Sequences, FiniteSets, TLC

VARIABLES
    _connected,     \* DatabaseConnection._connected
    _data,          \* DatabaseConnection._data
    dbHist,         \* history: "never" connected, "open", or "closed" since the last connect
    dbRet,          \* the last DatabaseConnection call: op, args, exc, ret
    _users,         \* AuthService._users: email -> User
    _sessions,      \* AuthService._sessions: token -> email
    issued,         \* history: the tokens uuid.uuid4() has returned so far
    firstReg,       \* history: email -> the first user passed to register_user with it
    authRet,        \* the last AuthService call: op, args, exc, ret
    person,         \* the last Person(...) construction: op, args, exc, ret
    start,          \* async_counter: its start argument
    end,            \* async_counter: its end argument
    nxt,            \* async_counter: the next value of the range iterator
    i,              \* async_counter: the loop variable
    pc,             \* async_counter: where the generator is suspended
    out,            \* async_counter: the values yielded so far, in order
    sleeps,         \* async_counter: the asyncio.sleep calls made so far
    __dict__,       \* Settings: the instance's attributes
    settingsRet     \* the last Settings call: op, args, exc, ret

dbVars == <<_connected, _data, dbHist, dbRet>>
authVars == <<_users, _sessions, issued, firstReg, authRet>>
personVars == <<person>>
counterVars == <<start, end, nxt, i, pc, out, sleeps>>
settingsVars == <<__dict__, settingsRet>>
vars == <<dbVars, authVars, personVars, counterVars, settingsVars>>
notDbVars == <<authVars, personVars, counterVars, settingsVars>>
notAuthVars == <<dbVars, personVars, counterVars, settingsVars>>
notPersonVars == <<dbVars, authVars, counterVars, settingsVars>>
notCounterVars == <<dbVars, authVars, personVars, settingsVars>>
notSettingsVars == <<dbVars, authVars, personVars, counterVars>>

---------------------------------------------------------------------------
(* Python values, tagged by type.                                          *)

None == [t |-> "None"]
PyBool(b) == [t |-> "bool", v |-> b]
PyInt(n) == [t |-> "int", v |-> n]
PyStr(s) == [t |-> "str", v |-> s]
PyList(s) == [t |-> "list", v |-> s]
PyTuple(s) == [t |-> "tuple", v |-> s]
PyDict(f) == [t |-> "dict", v |-> f]

NoExc == "none"
EmptyDict == [k \in {} |-> None]

(* bool(v), as an if statement takes it. *)
Truthy(v) ==
    CASE v.t = "None" -> FALSE
      [] v.t = "bool" -> v.v
      [] v.t = "int" -> v.v # 0
      [] v.t = "str" -> v.v # ""
      [] v.t \in {"list", "tuple"} -> Len(v.v) > 0
      [] v.t = "dict" -> DOMAIN v.v # {}
      [] OTHER -> TRUE

(* d[k] = x, k in d, d.get(k), del d[k] on a dict held as a function. *)
DictPut(d, k, x) == [j \in DOMAIN d \cup {k} |-> IF j = k THEN x ELSE d[j]]
DictHas(d, k) == k \in DOMAIN d
DictGet(d, k) == IF k \in DOMAIN d THEN d[k] ELSE None
DictDel(d, k) == [j \in DOMAIN d \ {k} |-> d[j]]

(* The outcome of a method call. *)
Returns(state, value) == [self |-> state, exc |-> NoExc, ret |-> value]
Raises(state, e) == [self |-> state, exc |-> e, ret |-> None]

---------------------------------------------------------------------------
(* services/database.py                                                    *)

MaxParams == 2

Queries == {"", "SELECT 1", "SELECT * FROM users WHERE id = ?"}
ParamVals == {1, 2}
TuplesUpTo(n) == UNION {[1..k -> ParamVals] : k \in 0..n}
Params == {None} \cup {PyTuple(p) : p \in TuplesUpTo(MaxParams)}
Tables == {"users", "sessions", "orders"}
Rows == {PyDict(EmptyDict)} \cup {PyDict([k \in {"id"} |-> v]) : v \in ParamVals}

DatabaseConnection_init == [_connected |-> FALSE, _data |-> EmptyDict]

connect(self) == Returns([self EXCEPT !._connected = TRUE], PyBool(TRUE))

close(self) == Returns([self EXCEPT !._connected = FALSE], None)

execute_noguard(self, query, params) == Returns(self, PyList(<<>>))

execute(self, query, params) ==
    IF ~self._connected
    THEN Raises(self, "RuntimeError")
    ELSE Returns(self, PyList(<<>>))

insert_storing(self, table, data) ==
    IF ~self._connected
    THEN Raises(self, "RuntimeError")
    ELSE Returns([self EXCEPT !._data = [k \in {table} |-> data]], PyInt(1))

insert(self, table, data) ==
    IF ~self._connected
    THEN Raises(self, "RuntimeError")
    ELSE Returns(self, PyInt(1))

_internal_cleanup(self) == Returns([self EXCEPT !._data = EmptyDict], None)

db == [_connected |-> _connected, _data |-> _data]

DbApply(r, op, args) ==
    /\ _connected' = r.self._connected
    /\ _data' = r.self._data
    /\ dbRet' = [op |-> op, args |-> args, exc |-> r.exc, ret |-> r.ret]

InitDbVars ==
    /\ _connected = DatabaseConnection_init._connected
    /\ _data = DatabaseConnection_init._data
    /\ dbHist = "never"
    /\ dbRet = [op |-> "__init__", args |-> <<>>, exc |-> NoExc, ret |-> None]

Connect ==
    /\ DbApply(connect(db), "connect", <<>>)
    /\ dbHist' = "open"
    /\ UNCHANGED notDbVars

Close ==
    /\ DbApply(close(db), "close", <<>>)
    /\ dbHist' = IF dbHist = "never" THEN "never" ELSE "closed"
    /\ UNCHANGED notDbVars

Execute ==
    \E q \in Queries, p \in Params :
        /\ DbApply(execute(db, q, p), "execute", <<q, p>>)
        /\ UNCHANGED <<dbHist, notDbVars>>

Insert ==
    \E tb \in Tables, d \in Rows :
        /\ DbApply(insert(db, tb, d), "insert", <<tb, d>>)
        /\ UNCHANGED <<dbHist, notDbVars>>

InternalCleanup ==
    /\ DbApply(_internal_cleanup(db), "_internal_cleanup", <<>>)
    /\ UNCHANGED <<dbHist, notDbVars>>

NextDb ==
    \/ Connect
    \/ Close
    \/ Execute
    \/ Insert
    \/ InternalCleanup

---------------------------------------------------------------------------
(* models/user.py and services/auth.py                                     *)

MaxTokens == 3

Names == {"Ann", "Bob"}
Emails == {"", "a@x.io", "b@x.io"}
Passwords == {"", "secret"}

(* User(name, email): role takes its default, _id starts as None. *)
User(name, email) ==
    [t |-> "User", name |-> name, email |-> email, role |-> "user", _id |-> None]

Users == {User(n, e) : n \in Names, e \in Emails}

(* The distinct values str(uuid.uuid4()) can give, and a string that is    *)
(* no session token.                                                       *)
Tokens == 1..MaxTokens
NoUuid == 0
TokenArgs == Tokens \cup {NoUuid}
Token(n) == [t |-> "str", uuid |-> n]

(* uuid.uuid4(): some identifier it has not returned before; NoUuid once   *)
(* the model's identifiers are used up.                                    *)
uuid4_repeating(used) == Tokens

uuid4(used) == IF Tokens \ used = {} THEN {NoUuid} ELSE Tokens \ used

AuthService_init == [_users |-> EmptyDict, _sessions |-> EmptyDict]

register_user_overwriting(self, user) ==
    LET stored == [self EXCEPT !._users = DictPut(self._users, user.email, user)] IN
    Returns(stored, PyBool(~DictHas(self._users, user.email)))

register_user(self, user) ==
    IF DictHas(self._users, user.email)
    THEN Returns(self, PyBool(FALSE))
    ELSE Returns([self EXCEPT !._users = DictPut(self._users, user.email, user)],
                 PyBool(TRUE))

authenticate_single_session(self, email, password, uuid) ==
    IF ~DictHas(self._users, email)
    THEN Returns(self, None)
    ELSE Returns([self EXCEPT !._sessions = DictPut(EmptyDict, uuid, PyStr(email))],
                 Token(uuid))

(* uuid is the value uuid.uuid4() gives if the call reaches it. *)
authenticate(self, email, password, uuid) ==
    IF ~DictHas(self._users, email)
    THEN Returns(self, None)
    ELSE Returns([self EXCEPT !._sessions = DictPut(self._sessions, uuid, PyStr(email))],
                 Token(uuid))

validate_session(self, token) ==
    LET email == DictGet(self._sessions, token) IN
    IF Truthy(email)
    THEN Returns(self, DictGet(self._users, email.v))
    ELSE Returns(self, None)

logout_keeping(self, token) ==
    IF DictHas(self._sessions, token)
    THEN Returns(self, PyBool(TRUE))
    ELSE Returns(self, PyBool(FALSE))

logout(self, token) ==
    IF DictHas(self._sessions, token)
    THEN Returns([self EXCEPT !._sessions = DictDel(self._sessions, token)],
                 PyBool(TRUE))
    ELSE Returns(self, PyBool(FALSE))

auth == [_users |-> _users, _sessions |-> _sessions]

AuthApply(r, op, args) ==
    /\ _users' = r.self._users
    /\ _sessions' = r.self._sessions
    /\ authRet' = [op |-> op, args |-> args, exc |-> r.exc, ret |-> r.ret]

InitAuthVars ==
    /\ _users = AuthService_init._users
    /\ _sessions = AuthService_init._sessions
    /\ issued = {}
    /\ firstReg = EmptyDict
    /\ authRet = [op |-> "__init__", args |-> <<>>, exc |-> NoExc, ret |-> None]

RegisterUser ==
    \E u \in Users :
        /\ AuthApply(register_user(auth, u), "register_user", <<u>>)
        /\ firstReg' = IF DictHas(firstReg, u.email) THEN firstReg
                       ELSE DictPut(firstReg, u.email, u)
        /\ UNCHANGED <<issued, notAuthVars>>

Authenticate ==
    \E e \in Emails, pw \in Passwords, id \in uuid4(issued) :
        LET r == authenticate(auth, e, pw, id) IN
        /\ (r.ret # None) => (id # NoUuid)
        /\ AuthApply(r, "authenticate", <<e, pw>>)
        /\ issued' = IF r.ret # None THEN issued \cup {id} ELSE issued
        /\ UNCHANGED <<firstReg, notAuthVars>>

ValidateSession ==
    \E tk \in TokenArgs :
        /\ AuthApply(validate_session(auth, tk), "validate_session", <<tk>>)
        /\ UNCHANGED <<issued, firstReg, notAuthVars>>

Logout ==
    \E tk \in TokenArgs :
        /\ AuthApply(logout(auth, tk), "logout", <<tk>>)
        /\ UNCHANGED <<issued, firstReg, notAuthVars>>

NextAuth ==
    \/ RegisterUser
    \/ Authenticate
    \/ ValidateSession
    \/ Logout

---------------------------------------------------------------------------
(* config/settings.py                                                      *)

(* What the class gives every instance: the methods (plain functions, so   *)
(* an instance attribute of the same name hides them) and the data         *)
(* descriptors of object (which an instance attribute cannot hide and      *)
(* whose setter takes only a class).                                       *)
Methods == {"__init__", "load_from_env", "get", "set", "__repr__"}
DataDescriptors == {"__class__"}
BoundMethod(name) == [t |-> "method", name |-> name]
SettingsClass == [t |-> "type", name |-> "Settings"]

SettingKeys == {"debug", "port", "timeout", "get", "set", "__class__"}
SettingValues == {None, PyInt(1), PyStr("x")}
Defaults == {None, PyInt(0)}

Settings_init ==
    [k \in {"debug", "db_url", "port", "host", "_env_vars"} |->
        CASE k = "debug" -> PyBool(FALSE)
          [] k = "db_url" -> PyStr("sqlite:///app.db")
          [] k = "port" -> PyInt(8080)
          [] k = "host" -> PyStr("localhost")
          [] k = "_env_vars" -> PyDict(EmptyDict)]

(* getattr(self, key, default) *)
getattr(self, key, default) ==
    IF key \in DataDescriptors THEN SettingsClass
    ELSE IF DictHas(self, key) THEN self[key]
    ELSE IF key \in Methods THEN BoundMethod(key)
    ELSE default

(* setattr(self, key, value), for a value that is no class *)
setattr(self, key, value) ==
    IF key \in DataDescriptors
    THEN Raises(self, "TypeError")
    ELSE Returns(DictPut(self, key, value), None)

get(self, key, default) == Returns(self, getattr(self, key, default))

set(self, key, value) == setattr(self, key, value)

(* settings.get(...) and settings.set(...): the attribute is looked up on  *)
(* the instance first, and calling what is found there raises TypeError    *)
(* unless it is the method.                                                *)
CallGet(self, key, default) ==
    IF getattr(self, "get", None) = BoundMethod("get")
    THEN get(self, key, default)
    ELSE Raises(self, "TypeError")

CallSet(self, key, value) ==
    IF getattr(self, "set", None) = BoundMethod("set")
    THEN set(self, key, value)
    ELSE Raises(self, "TypeError")

InitSettingsVars ==
    /\ __dict__ = Settings_init
    /\ settingsRet = [op |-> "__init__", args |-> <<>>, exc |-> NoExc, ret |-> None]

SettingsApply(r, op, args) ==
    /\ __dict__' = r.self
    /\ settingsRet' = [op |-> op, args |-> args, exc |-> r.exc, ret |-> r.ret]

Get ==
    \E k \in SettingKeys, d \in Defaults :
        /\ SettingsApply(CallGet(__dict__, k, d), "get", <<k, d>>)
        /\ UNCHANGED notSettingsVars

Set ==
    \E k \in SettingKeys, v \in SettingValues :
        /\ SettingsApply(CallSet(__dict__, k, v), "set", <<k, v>>)
        /\ UNCHANGED notSettingsVars

NextSettings ==
    \/ Get
    \/ Set

---------------------------------------------------------------------------
(* comprehensive.py: the Person dataclass                                  *)

MaxAge == 3

PersonNames == {"", "Eve"}
Ages == (0 - MaxAge)..MaxAge

(* The marker of an argument the caller did not pass. *)
NotPassed == [t |-> "MISSING"]
Passed(arg, default) == IF arg = NotPassed THEN default ELSE arg

EmailArgs == {NotPassed, PyStr("e@x.io")}
TagsArgs == {NotPassed, PyList(<<>>), PyList(<<"t">>)}
MetadataArgs == {NotPassed, PyDict(EmptyDict), PyDict([k \in {"k"} |-> 1])}

__post_init___nonpositive(self) ==
    IF self.age <= 0
    THEN Raises(self, "ValueError")
    ELSE Returns(self, None)

__post_init__(self) ==
    IF self.age < 0
    THEN Raises(self, "ValueError")
    ELSE Returns(self, None)

(* The __init__ that @dataclass generates: the fields in order, the        *)
(* default or default_factory for what is not passed, then __post_init__;  *)
(* the call gives the object unless __post_init__ raises.                  *)
Person(name, age, email, tags, metadata) ==
    LET self == [t |-> "Person",
                 name |-> name,
                 age |-> age,
                 email |-> Passed(email, None),
                 tags |-> Passed(tags, PyList(<<>>)),
                 metadata |-> Passed(metadata, PyDict(EmptyDict))]
        r == __post_init__(self)
    IN  IF r.exc # NoExc THEN Raises(None, r.exc) ELSE Returns(None, r.self)

PersonIdle ==
    person = [op |-> "idle", args |-> <<>>, exc |-> NoExc, ret |-> None]

Construct ==
    \E n \in PersonNames, a \in Ages, e \in EmailArgs,
       tg \in TagsArgs, md \in MetadataArgs :
        LET r == Person(n, a, e, tg, md) IN
        /\ person' = [op |-> "Person", args |-> <<n, a, e, tg, md>>,
                      exc |-> r.exc, ret |-> r.ret]
        /\ UNCHANGED notPersonVars

NextPerson == Construct

---------------------------------------------------------------------------
(* comprehensive.py: async_counter                                         *)

MaxN == 3

Bounds == (0 - MaxN)..MaxN

(* The range iterator of range(start, end): whether it has a next value. *)
range_has_next_inclusive(n, stop) == n <= stop

range_has_next(n, stop) == n < stop

(* The call async_counter(s, e): a generator that has not run yet. *)
async_counter(s, e) ==
    /\ start = s
    /\ end = e
    /\ nxt = s
    /\ i = None
    /\ pc = "created"
    /\ out = <<>>
    /\ sleeps = 0

CounterIdle == async_counter(0, 0)

(* __anext__ resumes the generator at the head of the for loop: the next   *)
(* value of the range is bound to i and asyncio.sleep is awaited, or the   *)
(* range is exhausted and the generator finishes.                          *)
CounterResume ==
    /\ pc \in {"created", "yielded"}
    /\ IF range_has_next(nxt, end)
       THEN /\ i' = PyInt(nxt)
            /\ nxt' = nxt + 1
            /\ sleeps' = sleeps + 1
            /\ pc' = "sleeping"
       ELSE /\ pc' = "done"
            /\ UNCHANGED <<i, nxt, sleeps>>
    /\ UNCHANGED <<start, end, out, notCounterVars>>

(* The sleep completes and the generator yields i. *)
CounterYield ==
    /\ pc = "sleeping"
    /\ out' = Append(out, i.v)
    /\ pc' = "yielded"
    /\ UNCHANGED <<start, end, nxt, i, sleeps, notCounterVars>>

NextCounter ==
    \/ CounterResume
    \/ CounterYield

---------------------------------------------------------------------------
(* The specifications: one object at a time, the others as constructed.    *)

Init ==
    /\ InitDbVars
    /\ InitAuthVars
    /\ PersonIdle
    /\ CounterIdle
    /\ InitSettingsVars

InitCounter ==
    /\ InitDbVars
    /\ InitAuthVars
    /\ PersonIdle
    /\ \E s \in Bounds, e \in Bounds : async_counter(s, e)
    /\ InitSettingsVars

SpecDb == Init /\ [][NextDb]_vars

SpecAuth == Init /\ [][NextAuth]_vars

SpecPerson == Init /\ [][NextPerson]_vars

(* The generator driven by `async for` on a running event loop: the loop   *)
(* asks for the next value until the generator is exhausted, and every     *)
(* sleep completes.                                                        *)
SpecCounter == InitCounter /\ [][NextCounter]_vars /\ WF_vars(NextCounter)

SpecSettings == Init /\ [][NextSettings]_vars

---------------------------------------------------------------------------
(* services/database.py: claims                                            *)


DbCall == dbRet'.op \in {"execute", "insert"}

(* C1: execute and insert raise RuntimeError exactly when the connection   *)
(* is not connected, which is exactly when it was never connected or has   *)
(* been closed since the last connect; a call that raises leaves           *)
(* _connected and _data as they were.                                      *)
C1_RaisesIffNotConnected ==
    [][DbCall =>
        /\ (dbRet'.exc = "RuntimeError") <=> ~_connected
        /\ (~_connected) <=> (dbHist \in {"never", "closed"})
        /\ dbRet'.exc \in {NoExc, "RuntimeError"}
        /\ (dbRet'.exc # NoExc) => (_connected' = _connected /\ _data' = _data)
      ]_vars

C1_Witness ==
    /\ dbRet.op = "execute"
    /\ dbRet.exc = "RuntimeError"
    /\ dbHist = "closed"

(* C2: on a connected connection execute returns the empty list for every  *)
(* query and params, and execute and insert leave _connected and _data     *)
(* unchanged.                                                              *)
C2_ConnectedExecuteEmpty ==
    [][(DbCall /\ _connected) =>
        /\ dbRet'.exc = NoExc
        /\ (dbRet'.op = "execute") => (dbRet'.ret = PyList(<<>>))
        /\ _connected' = _connected
        /\ _data' = _data
      ]_vars

C2_Witness ==
    /\ dbRet.op = "execute"
    /\ dbRet.exc = NoExc
    /\ dbRet.ret = PyList(<<>>)
    /\ dbRet.args[2] # None
    /\ _connected

---------------------------------------------------------------------------
(* services/auth.py: claims                                                *)

AuthCall(op) == authRet'.op = op

(* C3: sessions do not expire. authenticate enters its token with the      *)
(* email it was given, and in every step every session stays in _sessions  *)
(* with the same email unless the step is logout of that very token.       *)
C3_SessionsPersist ==
    [][/\ \A tk \in DOMAIN _sessions :
            \/ DictHas(_sessions', tk) /\ _sessions'[tk] = _sessions[tk]
            \/ AuthCall("logout") /\ authRet'.args = <<tk>>
       /\ (AuthCall("authenticate") /\ authRet'.ret # None) =>
            DictGet(_sessions', authRet'.ret.uuid) = PyStr(authRet'.args[1])
      ]_vars

C3_Witness ==
    \E tk \in DOMAIN _sessions :
        /\ authRet.op = "logout"
        /\ authRet.ret = PyBool(TRUE)
        /\ authRet.args[1] # tk
        /\ issued = Tokens

(* C4: validate_session returns the User registered under the session's    *)
(* email for every token in _sessions, whatever the email, None for every  *)
(* other token, and changes neither _users nor _sessions.                  *)
C4_ValidateSession ==
    [][AuthCall("validate_session") =>
        LET tk == authRet'.args[1] IN
        /\ DictHas(_sessions, tk) =>
            /\ authRet'.ret = DictGet(_users, _sessions[tk].v)
            /\ authRet'.ret # None
        /\ ~DictHas(_sessions, tk) => authRet'.ret = None
        /\ _users' = _users
        /\ _sessions' = _sessions
      ]_vars

(* C5: register_user returns True exactly when the user's email is not     *)
(* yet in _users and then stores the user under it; otherwise it returns   *)
(* False and leaves _users unchanged; so every email maps to the first     *)
(* user registered with it.                                                *)
C5_RegisterUser ==
    /\ [][AuthCall("register_user") =>
            LET u == authRet'.args[1] IN
            /\ authRet'.ret = PyBool(~DictHas(_users, u.email))
            /\ ~DictHas(_users, u.email) => _users' = DictPut(_users, u.email, u)
            /\ DictHas(_users, u.email) => _users' = _users
         ]_vars
    /\ [](_users = firstReg)

C5_Witness ==
    /\ authRet.op = "register_user"
    /\ authRet.ret = PyBool(FALSE)
    /\ _users[authRet.args[1].email] # authRet.args[1]

(* C6: authenticate returns None and creates no session for an email that  *)
(* is not registered; for a registered email it returns a token that was   *)
(* not in _sessions and records token -> email; _users is unchanged.       *)
C6_Authenticate ==
    [][AuthCall("authenticate") =>
        LET e == authRet'.args[1] IN
        /\ ~DictHas(_users, e) => (authRet'.ret = None /\ _sessions' = _sessions)
        /\ DictHas(_users, e) =>
            \E n \in Tokens :
                /\ authRet'.ret = Token(n)
                /\ ~DictHas(_sessions, n)
                /\ _sessions' = DictPut(_sessions, n, PyStr(e))
        /\ _users' = _users
      ]_vars

C6_Witness ==
    /\ authRet.op = "authenticate"
    /\ authRet.ret # None
    /\ Cardinality(DOMAIN _sessions) >= 2
    /\ Cardinality(issued) > Cardinality(DOMAIN _sessions)

(* C7: logout returns True exactly when the token is in _sessions and then *)
(* removes it, so that validate_session of it gives None and a second      *)
(* logout of it gives False; otherwise it returns False and changes        *)
(* nothing; _users and the other sessions are unchanged either way.        *)
C7_Logout ==
    [][AuthCall("logout") =>
        LET tk == authRet'.args[1]
            after == [_users |-> _users', _sessions |-> _sessions']
        IN
        /\ authRet'.ret = PyBool(DictHas(_sessions, tk))
        /\ DictHas(_sessions, tk) => _sessions' = DictDel(_sessions, tk)
        /\ ~DictHas(_sessions, tk) => _sessions' = _sessions
        /\ _users' = _users
        /\ validate_session(after, tk).ret = None
        /\ logout(after, tk).ret = PyBool(FALSE)
      ]_vars

C7_Witness ==
    /\ authRet.op = "logout"
    /\ authRet.ret = PyBool(TRUE)
    /\ _sessions # EmptyDict

---------------------------------------------------------------------------
(* comprehensive.py: claims                                                *)

(* C8: constructing a Person raises ValueError exactly when age is         *)
(* negative; for every age >= 0 the construction gives a Person with the   *)
(* given name and age, and with empty tags and metadata when those are     *)
(* not passed.                                                             *)
C8_PersonAgeValidation ==
    person.op = "Person" =>
        LET name == person.args[1]
            age == person.args[2]
            tags == person.args[4]
            metadata == person.args[5]
        IN
        /\ (person.exc = "ValueError") <=> (age < 0)
        /\ (age < 0) => (person.ret = None)
        /\ (age >= 0) =>
            /\ person.exc = NoExc
            /\ person.ret.t = "Person"
            /\ person.ret.name = name
            /\ person.ret.age = age
            /\ (tags = NotPassed) => (person.ret.tags = PyList(<<>>))
            /\ (metadata = NotPassed) => (person.ret.metadata = PyDict(EmptyDict))

C8_Witness ==
    /\ person.op = "Person"
    /\ person.args[2] = 0
    /\ person.args[4] = NotPassed
    /\ person.args[5] = NotPassed
    /\ person.exc = NoExc
    /\ person.ret.tags = PyList(<<>>)

(* The integers a, a+1, ..., b-1 in order. *)
Range(a, b) == [k \in 1..(b - a) |-> a + k - 1]

(* C9: async_counter(start, end) yields start, start+1, ..., end-1 in      *)
(* increasing order, makes exactly one sleep before each value it yields,  *)
(* and then finishes; when start >= end it yields nothing, never sleeps,   *)
(* and finishes.                                                           *)
C9_AsyncCounter ==
    /\ [](/\ Len(out) <= Len(Range(start, end))
          /\ out = SubSeq(Range(start, end), 1, Len(out))
          /\ sleeps = Len(out) + (IF pc = "sleeping" THEN 1 ELSE 0)
          /\ (pc = "done") => (out = Range(start, end))
          /\ (start >= end) => (out = <<>> /\ sleeps = 0))
    /\ <>(pc = "done")

C9_Witness ==
    /\ pc = "done"
    /\ start < 0
    /\ Len(out) >= 3
    /\ sleeps = Len(out)

---------------------------------------------------------------------------
(* config/settings.py: claims                                              *)

SettingsCall(op) == settingsRet'.op = op

(* C10: after a set(key, value) that returned, get(key) returns value, for *)
(* every key; and get(key, default) returns default for a key that is      *)
(* neither an initial setting nor was ever set.                            *)
C10_SetGetRoundTrip ==
    [][/\ (SettingsCall("set") /\ settingsRet'.exc = NoExc) =>
            CallGet(__dict__', settingsRet'.args[1], None)
                = Returns(__dict__', settingsRet'.args[2])
       /\ (SettingsCall("get") /\ ~DictHas(__dict__, settingsRet'.args[1])) =>
            /\ settingsRet'.exc = NoExc
            /\ settingsRet'.ret = settingsRet'.args[2]
      ]_vars

=============================================================================
